---- MODULE Spec2Model ----
(***************************************************************************)
(* Kinetic text engine of lumina-digital: TextScramble (per-character      *)
(* scramble transition driven by requestAnimationFrame, completion         *)
(* reported through a promise) and WordRotator (a timer-driven cycle of    *)
(* scramble transitions over a word list).                                 *)
(*                                                                         *)
(* Strings are sequences of one-character strings.  The empty string ""    *)
(* stands for JavaScript's '' and for an undefined `char` field (both are  *)
(* falsy in `!char`).  Handles returned by requestAnimationFrame and       *)
(* setTimeout are compared only for equality, so a fresh handle is the     *)
(* least one that is neither pending nor still stored in the object.       *)
(***************************************************************************)
EXTENDS Integers, Sequences, FiniteSets, TLC

\* ---------------------------------------------------------------- bounds

\* Number of setText invocations explored in one behaviour.
MaxCalls == 3

\* Length of the longest text given to a Typewriter.
MaxText == 4

\* Rounds of listener binding on the hover targets of the cursor.
MaxBindings == 3

\* Timeouts of the TiltElement pending at once.
MaxTimeouts == 2

\* ------------------------------------------------------------- constants

\* Math.floor(Math.random() * 40), for start and for end - start.
ScrambleRange == 40

\* Math.random() < 0.28, in hundredths.
RefreshPercent == 28

\* this.chars = '!<>-_\\/[]{}—=+*^?#' ("emdash" stands for U+2014).
chars ==
  << "!", "<", ">", "-", "_", "\\", "/", "[", "]", "{", "}", "emdash",
     "=", "+", "*", "^", "?", "#" >>

\* ---------------------------------------------------------------- inputs

\* Outcomes of Math.random(), in hundredths, enumerated per call site.
\* Lines 69-70 (start, end - start): 0.00 and 0.06 give 0 and 2 frames.
TimingDraws == {0, 6}

\* Lines 69-70 again, with the top of the range: 0.99 gives 39.
WideTimingDraws == {0, 6, 99}

\* Line 92 (Math.random() < 0.28): one outcome below and one above.
RefreshDraws == {0, 99}

\* Line 93 (index into this.chars): 0.00 and 0.06 give "!" and "<".
GlyphDraws == {0, 6}

\* Math.floor(r * n) for r in hundredths.
FloorMul(r, n) == (r * n) \div 100

\* The ASCII letters that occur in the texts: after "<" a letter opens a tag.
Letters == {"A", "B"}

\* Arguments of setText.
Texts == { <<>>, <<"B">>, <<"<", "B">> }

\* The interval of a rotator constructed without one.
DefaultInterval == 3000

\* The options a rotator is constructed with, as sets of key-value pairs.
Options == { {}, {<<"interval", 2500>>} }

\* { interval: 3000, ...options }.interval
IntervalOf(options) ==
  IF \E o \in options : o[1] = "interval"
  THEN (CHOOSE o \in options : o[1] = "interval")[2]
  ELSE DefaultInterval

\* An attribute the element does not have, and one it has with value v.
Absent == [given |-> FALSE, value |-> <<>>]
Given(v) == [given |-> TRUE, value |-> v]

\* The attributes of an element that has neither data-words nor
\* data-interval.
NoDataset == [words |-> Absent, interval |-> Absent]

\* The data-words and data-interval attributes of the rotate element.
Datasets ==
  [ words : { Absent, Given(<<>>), Given(<<" ", "B", " ", ",", "A", "B">>),
              Given(<<"<", "B", ",", "A">>) },
    interval : { Absent, Given(<<"0">>), Given(<<"2", "5">>), Given(<<"2", "x">>) } ]

\* The texts of the elements given to a Typewriter.
TypeTexts == UNION {[1..n -> Letters] : n \in 0..MaxText}

\* Text content of the element before the first setText.
InitialTexts == { <<"A", "B">> }

\* Word lists handed to the WordRotator constructor.
WordLists ==
  { <<>>,
    << <<"B">>, <<"A", "B">> >>,
    << <<"<", "B">>, <<"A">> >> }

\* The word list of the cycle that is left running.
CycleWords == << <<"B">>, <<"A">> >>

\* ------------------------------------------------------------- utilities

Max(a, b) == IF a >= b THEN a ELSE b

\* s[i] || '' with i counted from 1.
CharAt(s, i) == IF i <= Len(s) THEN s[i] ELSE ""

RECURSIVE Product(_)
\* All sequences that take their i-th element from the i-th set.
Product(sets) ==
  IF sets = <<>> THEN {<<>>}
  ELSE {<<h>> \o t : h \in Head(sets), t \in Product(Tail(sets))}

\* The least handle not in `used`.
FreshId(used) == CHOOSE i \in 1..(Cardinality(used) + 1) : i \notin used

\* ------------------------------------------------- innerHTML/textContent

\* One piece of `output`: a character emitted as is, or a glyph wrapped in
\* <span class="scramble-char">...</span>.
Raw(c) == [wrapped |-> FALSE, c |-> c]
Wrapped(c) == [wrapped |-> TRUE, c |-> c]

CommentStates ==
  {"commentStart", "commentStartDash", "comment", "commentEndDash",
   "commentEnd", "commentEndBang"}

\* One step of the HTML tokenizer on a character written as is: the next
\* state and the text emitted.  "skip" is any state that discards input up
\* to the next ">" (inside a tag, or inside a bogus comment).
RawStep(st, c) ==
  CASE st = "data" ->
         IF c = "<" THEN [st |-> "tagOpen", out |-> <<>>]
         ELSE [st |-> "data", out |-> <<c>>]
    [] st = "tagOpen" ->
         IF c = "!" THEN [st |-> "markupDecl", out |-> <<>>]
         ELSE IF c = "/" THEN [st |-> "endTagOpen", out |-> <<>>]
         ELSE IF c \in Letters \/ c = "?" THEN [st |-> "skip", out |-> <<>>]
         ELSE IF c = "<" THEN [st |-> "tagOpen", out |-> <<"<">>]
         ELSE [st |-> "data", out |-> <<"<", c>>]
    [] st = "endTagOpen" ->
         IF c = ">" THEN [st |-> "data", out |-> <<>>]
         ELSE [st |-> "skip", out |-> <<>>]
    [] st = "skip" ->
         IF c = ">" THEN [st |-> "data", out |-> <<>>]
         ELSE [st |-> "skip", out |-> <<>>]
    [] st \in {"markupDecl", "markupDash"} ->
         IF c = "-"
         THEN [st |-> IF st = "markupDecl" THEN "markupDash" ELSE "commentStart",
               out |-> <<>>]
         ELSE IF c = ">" THEN [st |-> "data", out |-> <<>>]
         ELSE [st |-> "skip", out |-> <<>>]
    [] st \in {"commentStart", "commentStartDash"} ->
         IF c = "-"
         THEN [st |-> IF st = "commentStart" THEN "commentStartDash" ELSE "commentEnd",
               out |-> <<>>]
         ELSE IF c = ">" THEN [st |-> "data", out |-> <<>>]
         ELSE [st |-> "comment", out |-> <<>>]
    [] st \in {"comment", "commentEndDash"} ->
         IF c = "-"
         THEN [st |-> IF st = "comment" THEN "commentEndDash" ELSE "commentEnd",
               out |-> <<>>]
         ELSE [st |-> "comment", out |-> <<>>]
    [] st = "commentEnd" ->
         IF c = ">" THEN [st |-> "data", out |-> <<>>]
         ELSE IF c = "!" THEN [st |-> "commentEndBang", out |-> <<>>]
         ELSE IF c = "-" THEN [st |-> "commentEnd", out |-> <<>>]
         ELSE [st |-> "comment", out |-> <<>>]
    [] st = "commentEndBang" ->
         IF c = "-" THEN [st |-> "commentEndDash", out |-> <<>>]
         ELSE IF c = ">" THEN [st |-> "data", out |-> <<>>]
         ELSE [st |-> "comment", out |-> <<>>]

\* One step on a wrapped glyph.  In the data state the span element holds
\* the glyph as text.  After a lone "<" that "<" is text too.  Inside a tag
\* or a bogus comment the ">" of the span's start tag ends it and the glyph
\* is text.  Inside a comment the whole piece is comment data.
WrappedStep(st, c) ==
  CASE st = "data" -> [st |-> "data", out |-> <<c>>]
    [] st = "tagOpen" -> [st |-> "data", out |-> <<"<", c>>]
    [] st \in {"endTagOpen", "skip", "markupDecl", "markupDash"} ->
         [st |-> "data", out |-> <<c>>]
    [] st \in CommentStates -> [st |-> "comment", out |-> <<>>]

\* Text emitted when the input ends in state st.
EndOfInput(st) ==
  CASE st = "tagOpen" -> <<"<">>
    [] st = "endTagOpen" -> <<"<", "/">>
    [] OTHER -> <<>>

RECURSIVE Tokenize(_, _, _, _)
Tokenize(output, i, st, text) ==
  IF i > Len(output) THEN text \o EndOfInput(st)
  ELSE IF output[i].c = "" THEN Tokenize(output, i + 1, st, text)
  ELSE LET step == IF output[i].wrapped THEN WrappedStep(st, output[i].c)
                   ELSE RawStep(st, output[i].c)
       IN  Tokenize(output, i + 1, step.st, text \o step.out)

\* el.textContent after el.innerHTML = output.
TextContent(output) == Tokenize(output, 1, "data", <<>>)

RECURSIVE SplitFrom(_, _, _)
\* The rest of str.split(','), reading str from position i with the entry
\* cur begun.
SplitFrom(str, i, cur) ==
  IF i > Len(str) THEN <<cur>>
  ELSE IF str[i] = "," THEN <<cur>> \o SplitFrom(str, i + 1, <<>>)
  ELSE SplitFrom(str, i + 1, Append(cur, str[i]))

\* str.split(',')
Split(str) == SplitFrom(str, 1, <<>>)

RECURSIVE TrimStart(_)
TrimStart(w) == IF w # <<>> /\ Head(w) = " " THEN TrimStart(Tail(w)) ELSE w

RECURSIVE TrimEnd(_)
TrimEnd(w) ==
  IF w # <<>> /\ w[Len(w)] = " " THEN TrimEnd(SubSeq(w, 1, Len(w) - 1)) ELSE w

\* w.trim()
Trim(w) == TrimEnd(TrimStart(w))

\* el.dataset.words?.split(',').map((w) => w.trim()) || []
ParsedWords(attr) ==
  IF attr.given
  THEN [k \in 1..Len(Split(attr.value)) |-> Trim(Split(attr.value)[k])]
  ELSE <<>>

Digits == <<"0", "1", "2", "3", "4", "5", "6", "7", "8", "9">>

IsDigit(c) == \E d \in 1..Len(Digits) : Digits[d] = c

DigitValue(c) == (CHOOSE d \in 1..Len(Digits) : Digits[d] = c) - 1

\* A number value: NaN, or the integer n.
NaN == [nan |-> TRUE, n |-> 0]
Number(n) == [nan |-> FALSE, n |-> n]

RECURSIVE ParseDigits(_, _, _)
\* The digits of parseInt from position i on, after the value acc.
ParseDigits(str, i, acc) ==
  IF i <= Len(str) /\ IsDigit(str[i])
  THEN ParseDigits(str, i + 1, Number(acc.n * 10 + DigitValue(str[i])))
  ELSE acc

\* parseInt(attribute, 10): NaN for a missing attribute (undefined) and
\* for a value that does not begin with a number.
ParseInt(attr) ==
  IF ~attr.given THEN NaN
  ELSE LET w == TrimStart(attr.value)
           signed == w # <<>> /\ Head(w) \in {"-", "+"}
           r == ParseDigits(w, IF signed THEN 2 ELSE 1, NaN)
       IN  IF r.nan THEN NaN
           ELSE IF signed /\ Head(w) = "-" THEN Number(0 - r.n) ELSE r

\* x || 3000: NaN and 0 are falsy.
OrDefault(x) == IF x.nan \/ x.n = 0 THEN DefaultInterval ELSE x.n

\* ------------------------------------------------------------------ state

VARIABLES
  el,            \* el.textContent
  output,        \* the string update() last assigned to el.innerHTML
  seen,          \* the value of this.frame update() last ran with
  frameRequest,  \* this.frameRequest (0: null)
  frame,         \* this.frame
  queue,         \* this.queue
  resolve,       \* this.resolve: the promise it settles (0: null)
  raf,           \* handles of the pending animation-frame callbacks
  promises,      \* one entry per promise made by setText, in order of creation
  microtasks,    \* promise reaction jobs queued and not yet run
  words,         \* WordRotator.words (<<>> before construction)
  constructed,   \* a WordRotator exists
  currentIndex,  \* WordRotator.currentIndex, counted from 0
  timeoutId,     \* WordRotator.timeoutId (0: null)
  timers,        \* handles of the pending timeouts
  due,           \* for each pending timeout, the delay still to elapse (ms)
  interval,      \* WordRotator.options.interval
  elapsed,       \* time since the latest completion notification (ms)
  thrown,        \* an exception has left the running script
  dataset,       \* el.dataset of the rotate element
  initialised,   \* initKineticText() has run
  newText,       \* argument of the latest setText call
  interrupted,   \* promises whose session was superseded before it completed
  stopPhase,     \* what the cycle was doing at the first stop() call
  stopCalls,     \* number of setText calls made before the first stop() call
  typewriter,    \* the Typewriter: its fields, element text and pending timers
  cursor,        \* the custom cursor: its elements, listeners and the pointer
  nav,           \* the mobile navigation: its four open indicators and the window
  tilt,          \* the TiltElement: its styles, its pending timeouts and the pointer
  magnetic       \* the MagneticElement: its fields, its style and its pending frames

kinetic ==
  << el, output, seen, frameRequest, frame, queue, resolve, raf, promises, microtasks,
     words, constructed, currentIndex, timeoutId, timers, due, interval,
     elapsed, thrown, dataset, initialised, newText, interrupted, stopPhase,
     stopCalls >>

\* The components that the scrambler and the rotator do not touch.
rest == << typewriter, cursor, nav, tilt, magnetic >>

vars == << kinetic, rest >>

\* The program state as one record, so that handlers can be composed.
Now ==
  [ el |-> el, output |-> output, seen |-> seen, frameRequest |-> frameRequest, frame |-> frame, queue |-> queue,
    resolve |-> resolve, raf |-> raf, promises |-> promises,
    microtasks |-> microtasks, currentIndex |-> currentIndex,
    timeoutId |-> timeoutId, timers |-> timers, due |-> due,
    interval |-> interval, elapsed |-> elapsed, thrown |-> thrown ]

Becomes(s) ==
  /\ el' = s.el
  /\ output' = s.output
  /\ seen' = s.seen
  /\ frameRequest' = s.frameRequest
  /\ frame' = s.frame
  /\ queue' = s.queue
  /\ resolve' = s.resolve
  /\ raf' = s.raf
  /\ promises' = s.promises
  /\ microtasks' = s.microtasks
  /\ currentIndex' = s.currentIndex
  /\ timeoutId' = s.timeoutId
  /\ timers' = s.timers
  /\ due' = s.due
  /\ interval' = s.interval
  /\ elapsed' = s.elapsed
  /\ thrown' = s.thrown

\* ----------------------------------------------------------- TextScramble

\* Variant of NewPromise: the resolver of a promise that is still pending is
\* kept instead of being replaced.
NewPromiseKeepingResolver(s) ==
  [s EXCEPT !.promises = Append(@, [calls |-> 0, thens |-> 0]),
            !.resolve = IF s.resolve # 0 /\ s.promises[s.resolve].calls = 0
                        THEN s.resolve
                        ELSE Len(s.promises) + 1]

\* new Promise((resolve) => (this.resolve = resolve))
NewPromise(s) ==
  [s EXCEPT !.promises = Append(@, [calls |-> 0, thens |-> 0]),
            !.resolve = Len(s.promises) + 1]

\* this.resolve(): the first call fulfils the promise and queues its
\* reactions; later calls do nothing but are counted.
CallResolve(s) ==
  LET p == s.promises[s.resolve]
  IN  [s EXCEPT !.promises[s.resolve].calls = @ + 1,
                !.microtasks = IF p.calls = 0 THEN @ + p.thens ELSE @,
                !.elapsed = IF p.calls = 0 THEN 0 ELSE @]

\* Variant of Then: the reaction is not attached.
ThenDropped(s, p) == s

\* promise.then(reaction)
Then(s, p) ==
  IF s.promises[p].calls > 0
  THEN [s EXCEPT !.microtasks = @ + 1]
  ELSE [s EXCEPT !.promises[p].thens = @ + 1]

\* Variant of Task: Math.round in place of Math.floor.
TaskRounded(from, to, r1, r2) ==
  LET start == (r1 * ScrambleRange + 50) \div 100
  IN  [from |-> from, to |-> to, start |-> start,
       end |-> start + (r2 * ScrambleRange + 50) \div 100, char |-> ""]

\* The four fields of one queue entry, for one pair of Math.random() results.
Task(from, to, r1, r2) ==
  LET start == FloorMul(r1, ScrambleRange)
  IN  [from |-> from, to |-> to, start |-> start,
       end |-> start + FloorMul(r2, ScrambleRange), char |-> ""]

\* Variant of BuiltQueues: the loop runs to newText.length only.
BuiltQueuesNewLength(oldText, text, draws) ==
  Product([i \in 1..Len(text) |->
            {Task(CharAt(oldText, i), CharAt(text, i), r1, r2) :
               r1 \in draws, r2 \in draws}])

\* The queues the loop of setText can build.
BuiltQueues(oldText, text, draws) ==
  Product([i \in 1..Max(Len(oldText), Len(text)) |->
            {Task(CharAt(oldText, i), CharAt(text, i), r1, r2) :
               r1 \in draws, r2 \in draws}])

\* Variant of CancelAnimationFrame: the callback stays pending.
CancelNothing(s, handle) == s

\* cancelAnimationFrame(handle)
CancelAnimationFrame(s, handle) == [s EXCEPT !.raf = @ \ {handle}]

\* requestAnimationFrame(this.update), stored in this.frameRequest
RequestAnimationFrame(s) ==
  LET h == FreshId(s.raf \union {s.frameRequest})
  IN  [s EXCEPT !.raf = @ \union {h}, !.frameRequest = h]

\* Variant of DrawChar: a glyph is drawn only by the refresh.
DrawCharOnRefresh(char, r1, r2) ==
  IF r1 < RefreshPercent
  THEN chars[FloorMul(r2, Len(chars)) + 1]
  ELSE char

\* The glyph kept in `char` by one pass of the loop body of update().
DrawChar(char, r1, r2) ==
  IF char = "" \/ r1 < RefreshPercent
  THEN chars[FloorMul(r2, Len(chars)) + 1]
  ELSE char

\* The queue entries one pass of the loop body of update() can leave.
UpdatedTasks(task, f) ==
  IF f >= task.end THEN {task}
  ELSE IF f >= task.start
  THEN {[task EXCEPT !.char = DrawChar(task.char, r1, r2)] :
          r1 \in RefreshDraws, r2 \in GlyphDraws}
  ELSE {task}

UpdatedQueues(q, f) == Product([i \in 1..Len(q) |-> UpdatedTasks(q[i], f)])

\* Variant of Emit: the start frame is tested before the end frame.
EmitStartFirst(task, f) ==
  IF f >= task.start THEN Wrapped(task.char)
  ELSE IF f >= task.end THEN Raw(task.to)
  ELSE Raw(task.from)

\* The piece update() appends to `output` for one entry.
Emit(task, f) ==
  IF f >= task.end THEN Raw(task.to)
  ELSE IF f >= task.start THEN Wrapped(task.char)
  ELSE Raw(task.from)

\* Variant of Complete: an entry counts from its start frame on.
CompleteFromStart(q, f) == Cardinality({i \in 1..Len(q) : f >= q[i].start})

\* `complete` after the loop of update().
Complete(q, f) == Cardinality({i \in 1..Len(q) : f >= q[i].end})

\* Variant of Update: the frame counter goes up by two.
UpdateCountingTwice(s, q) ==
  LET out == [i \in 1..Len(q) |-> Emit(q[i], s.frame)]
      s1 == [s EXCEPT !.queue = q, !.output = out, !.el = TextContent(out),
                      !.seen = s.frame]
  IN  IF Complete(q, s.frame) = Len(q)
      THEN CallResolve(s1)
      ELSE [RequestAnimationFrame(s1) EXCEPT !.frame = @ + 2]

\* Variant of Update: a frame is requested after the completing update too.
UpdateAlwaysRequesting(s, q) ==
  LET out == [i \in 1..Len(q) |-> Emit(q[i], s.frame)]
      s1 == [s EXCEPT !.queue = q, !.output = out, !.el = TextContent(out),
                      !.seen = s.frame]
  IN  IF Complete(q, s.frame) = Len(q)
      THEN CallResolve(RequestAnimationFrame(s1))
      ELSE [RequestAnimationFrame(s1) EXCEPT !.frame = @ + 1]

\* update(), with q the queue its loop leaves.
Update(s, q) ==
  LET out == [i \in 1..Len(q) |-> Emit(q[i], s.frame)]
      s1 == [s EXCEPT !.queue = q, !.output = out, !.el = TextContent(out),
                      !.seen = s.frame]
  IN  IF Complete(q, s.frame) = Len(q)
      THEN CallResolve(s1)
      ELSE [RequestAnimationFrame(s1) EXCEPT !.frame = @ + 1]

\* Variant of BeginSetText: this.frame keeps its value.
BeginSetTextKeepingFrame(s, q) ==
  LET s1 == NewPromise(s)
  IN  CancelAnimationFrame([s1 EXCEPT !.queue = q], s1.frameRequest)

\* setText(text) up to the call of update(), with q the queue built.
BeginSetText(s, q) ==
  LET s1 == NewPromise(s)
      s2 == CancelAnimationFrame([s1 EXCEPT !.queue = q], s1.frameRequest)
  IN  [s2 EXCEPT !.frame = 0]

\* Variant of SetTextResults: oldText is the target of the session in the
\* queue instead of the text the element shows.
SetTextResultsFromTarget(s, text, draws) ==
  UNION { { Update(BeginSetText(s, q), q2) : q2 \in UpdatedQueues(q, 0) } :
            q \in BuiltQueues(IF s.resolve = 0 THEN s.el
                              ELSE [i \in 1..Len(s.queue) |-> s.queue[i].to],
                              text, draws) }

\* The states setText(text) can leave.
SetTextResults(s, text, draws) ==
  UNION { { Update(BeginSetText(s, q), q2) : q2 \in UpdatedQueues(q, 0) } :
            q \in BuiltQueues(s.el, text, draws) }

\* A session is in flight: its promise is pending.
InFlight == resolve # 0 /\ promises[resolve].calls = 0

\* ------------------------------------------------------------ WordRotator

\* The delays of the pending timeouts after setTimeout(callback, delay)
\* returned the handle h; a negative delay counts as none.
SetTimeout(d, h, delay) ==
  [k \in DOMAIN d \union {h} |-> IF k = h THEN Max(delay, 0) ELSE d[k]]

\* The delays of the pending timeouts without the timeout h.
ClearTimeout(d, h) == [k \in DOMAIN d \ {h} |-> d[k]]

\* Variant of Reaction: the next word is scheduled without a delay.
ReactionWithoutDelay(s) ==
  LET h == FreshId(s.timers \union {s.timeoutId})
  IN  [s EXCEPT !.timers = @ \union {h}, !.timeoutId = h,
                !.due = SetTimeout(s.due, h, 0),
                !.microtasks = @ - 1]

\* setTimeout(() => this.next(), interval), stored in this.timeoutId: the
\* reaction that next() attaches to the promise of setText.
Reaction(s) ==
  LET h == FreshId(s.timers \union {s.timeoutId})
  IN  [s EXCEPT !.timers = @ \union {h}, !.timeoutId = h,
                !.due = SetTimeout(s.due, h, s.interval),
                !.microtasks = @ - 1]

RECURSIVE Drain(_)
\* The microtask checkpoint that follows a callback or ends a script.
Drain(s) == IF s.microtasks = 0 THEN s ELSE Drain(Reaction(s))

\* Variant of NextResults: every transition targets the first word.
NextResultsFirstWord(s, ws) ==
  IF ws = <<>> THEN {[s EXCEPT !.thrown = TRUE]}
  ELSE { [Then(s1, s1.resolve) EXCEPT !.currentIndex = (s.currentIndex + 1) % Len(ws)] :
           s1 \in SetTextResults(s, ws[1], TimingDraws) }

\* Variant of NextResults: next() leaves the index as it is.
NextResultsKeepingIndex(s, ws) ==
  IF ws = <<>> THEN {[s EXCEPT !.thrown = TRUE]}
  ELSE { Then(s1, s1.resolve) :
           s1 \in SetTextResults(s, ws[s.currentIndex + 1], TimingDraws) }

\* The states next() can leave, for the word list ws. With no word at
\* currentIndex, setText(undefined) throws a TypeError at newText.length,
\* before it has changed anything.
NextResults(s, ws) ==
  IF ws = <<>> THEN {[s EXCEPT !.thrown = TRUE]}
  ELSE { [Then(s1, s1.resolve) EXCEPT !.currentIndex = (s.currentIndex + 1) % Len(ws)] :
           s1 \in SetTextResults(s, ws[s.currentIndex + 1], TimingDraws) }

\* clearTimeout(this.timeoutId)
StopResult(s) ==
  [s EXCEPT !.timers = @ \ {s.timeoutId}, !.due = ClearTimeout(@, s.timeoutId)]

\* What the cycle is doing: a transition is running, its completion has
\* not yet been followed by the timer, or the timer is pending.
Phase ==
  IF InFlight THEN "inflight"
  ELSE IF microtasks > 0 THEN "completing"
  ELSE IF timeoutId \in timers THEN "delay"
  ELSE "idle"

\* ------------------------------------------------------------- Typewriter

\* No Typewriter has been constructed.
NoTypewriter ==
  [ made |-> FALSE, text |-> <<>>, textContent |-> <<>>, i |-> 0,
    timeout |-> FALSE, interval |-> FALSE, calls |-> 0, resolved |-> 0 ]

\* new Typewriter(element) for an element showing `text`: the text is
\* captured and the element emptied.
TypewriterOf(text) ==
  [ made |-> TRUE, text |-> text, textContent |-> <<>>, i |-> 0,
    timeout |-> FALSE, interval |-> FALSE, calls |-> 0, resolved |-> 0 ]

\* type(): the promise is made and the delay timeout set.
TypeResult(t) == [t EXCEPT !.timeout = TRUE, !.calls = @ + 1]

\* The callback of the delay timeout: i = 0 and the interval is set.
DelayResult(t) == [t EXCEPT !.timeout = FALSE, !.i = 0, !.interval = TRUE]

\* Variant of TickResult: the last character is left out.
TickResultStoppingShort(t) ==
  IF t.i < Len(t.text) - 1
  THEN [t EXCEPT !.textContent = Append(@, t.text[t.i + 1]), !.i = @ + 1]
  ELSE [t EXCEPT !.interval = FALSE, !.resolved = @ + 1]

\* The callback of the interval: the next character is appended, or the
\* interval is cleared and the promise resolved.
TickResult(t) ==
  IF t.i < Len(t.text)
  THEN [t EXCEPT !.textContent = Append(@, t.text[t.i + 1]), !.i = @ + 1]
  ELSE [t EXCEPT !.interval = FALSE, !.resolved = @ + 1]

\* ----------------------------------------------------------------- Cursor

\* The kinds of hover target bindHoverTargets() binds, and the value of the
\* data-cursor-text attribute of the text target.
TargetKinds == {"hover", "media", "text", "hidden"}

CursorText == "View"

\* The cursor module has not been evaluated.  `dot` and `ring` hold
\* dataset.state of the two elements and `text` holds text.textContent, all
\* meaningful only when `elements` (the three are not null).  `bound` is the
\* number of listener pairs bindHoverTargets() has added to each target and
\* `documentBound` says that bindEvents() ran.  `over` is the target under
\* the pointer and `down` the state of the mouse button.  `thrown` says
\* that a handler ended with a TypeError; `before` is the state of the dot
\* at the latest mousedown and `last` the latest event.  The loop that
\* moves the elements after the pointer writes positions only, which are
\* not represented.
NoCursor ==
  [ made |-> FALSE, touch |-> FALSE, elements |-> FALSE, dot |-> "", ring |-> "",
    text |-> "", bound |-> 0, documentBound |-> FALSE, over |-> "none",
    down |-> FALSE, thrown |-> FALSE, before |-> "", last |-> "none" ]

\* bindHoverTargets(): one more mouseenter and mouseleave listener on every
\* target.
BindHoverTargets(c) == [c EXCEPT !.bound = @ + 1]

\* new Cursor(): init() returns at once on a touch device, and otherwise
\* creates the elements and binds the events.
CursorOf(touch) ==
  IF touch
  THEN [NoCursor EXCEPT !.made = TRUE, !.touch = TRUE]
  ELSE BindHoverTargets([NoCursor EXCEPT !.made = TRUE, !.elements = TRUE,
                                         !.dot = "default", !.ring = "default",
                                         !.documentBound = TRUE])

\* setState(state): this.dot.dataset of a null dot is a TypeError.
SetState(c, state) ==
  IF c.elements
  THEN [c EXCEPT !.dot = state, !.ring = state]
  ELSE [c EXCEPT !.thrown = TRUE]

\* setText(text): this.text.textContent of a null text is a TypeError.
CursorSetText(c, text) ==
  IF c.elements
  THEN [c EXCEPT !.text = text]
  ELSE [c EXCEPT !.thrown = TRUE]

\* One mouseenter listener of a target of the given kind.  The listener of
\* the text target ends at the exception of setText.
EnterListener(c, kind) ==
  IF kind = "text"
  THEN IF c.elements THEN SetState(CursorSetText(c, CursorText), "text")
                     ELSE CursorSetText(c, CursorText)
  ELSE SetState(c, kind)

\* One mouseleave listener of any target.
LeaveListener(c) == SetState(c, "default")

\* The n mouseenter listeners of a target, in the order they were added.
RECURSIVE EnterListeners(_, _, _)
EnterListeners(c, kind, n) ==
  IF n = 0 THEN c ELSE EnterListeners(EnterListener(c, kind), kind, n - 1)

\* The n mouseleave listeners of a target.
RECURSIVE LeaveListeners(_, _)
LeaveListeners(c, n) ==
  IF n = 0 THEN c ELSE LeaveListeners(LeaveListener(c), n - 1)

\* onClick()
OnClick(c) == SetState(c, "click")

\* onRelease()
OnRelease(c) == SetState(c, "default")

\* ------------------------------------------------------------ initMobileNav

\* Window widths on both sides of the 768px limit, and the keys pressed.
Widths == {375, 768, 769, 1280}

Keys == {"Escape", "Enter"}

MobileLimit == 768

\* initMobileNav() has not run.  `last` is the latest event handled.
NoNav ==
  [ made |-> FALSE, isActive |-> FALSE, ariaExpanded |-> "false", isOpen |-> FALSE,
    menuOpen |-> FALSE, innerWidth |-> 0, last |-> "none" ]

\* initMobileNav() on a page whose menu is closed, in a window of width w.
NavOf(w) == [NoNav EXCEPT !.made = TRUE, !.innerWidth = w]

\* openMenu()
OpenMenu(n) ==
  [n EXCEPT !.isActive = TRUE, !.ariaExpanded = "true", !.isOpen = TRUE,
            !.menuOpen = TRUE]

\* Variant of CloseMenu: the class of the body is left in place.
CloseMenuKeepingBody(n) ==
  [n EXCEPT !.isActive = FALSE, !.ariaExpanded = "false", !.isOpen = FALSE]

\* closeMenu()
CloseMenu(n) ==
  [n EXCEPT !.isActive = FALSE, !.ariaExpanded = "false", !.isOpen = FALSE,
            !.menuOpen = FALSE]

\* The click listener of the toggle.
ToggleResult(n) == IF n.isOpen THEN CloseMenu(n) ELSE OpenMenu(n)

\* The keydown listener of the document.
KeyResult(n, key) == IF key = "Escape" /\ n.isOpen THEN CloseMenu(n) ELSE n

\* The resize listener of the window.
ResizeResult(n) == IF n.innerWidth > MobileLimit /\ n.isOpen THEN CloseMenu(n) ELSE n

\* ------------------------------------------------------------ TiltElement

\* options.speed (ms), options.maxTilt (degrees) and options.scale (percent).
Speed == 400

MaxTilt == 15

ScalePercent == 102

\* Width and height of the element, and the pointer coordinates inside it.
RectSize == 100

Positions == {0, 50, 100}

\* Times that pass between two events (ms).
Elapses == {100, 300}

\* Values of el.style.transition.
EaseTransition == "transform 400ms ease"

\* Values of el.style.transform: unset, and a rotation with a scale.
NoTransform == [set |-> FALSE, rotateX |-> 0, rotateY |-> 0, scale |-> 0]

Rotated(rx, ry, s) == [set |-> TRUE, rotateX |-> rx, rotateY |-> ry, scale |-> s]

\* No TiltElement has been constructed.  `glare` says that glareElement is
\* not null, `bound` that bindEvents() ran; `timeouts` holds, for each
\* pending timeout in the order they were set, the delay still to elapse.
\* `inside` says that the pointer is over the element and `left` that
\* onLeave() ran with no mouseenter since.
NoTilt ==
  [ made |-> FALSE, touch |-> FALSE, glare |-> FALSE, bound |-> FALSE,
    transition |-> "", transform |-> NoTransform,
    glareAt |-> << 0, 0 >>, glareOpacity |-> "", timeouts |-> << >>,
    inside |-> FALSE, left |-> FALSE ]

\* new TiltElement(el, {glare}): init() returns at once on a touch device.
TiltOf(touch, glare) ==
  IF touch
  THEN [NoTilt EXCEPT !.made = TRUE, !.touch = TRUE]
  ELSE [NoTilt EXCEPT !.made = TRUE, !.glare = glare, !.bound = TRUE]

\* onEnter()
OnEnter(t) ==
  [t EXCEPT !.transition = EaseTransition, !.timeouts = Append(@, Speed)]

\* onMove(e) with the pointer at (x, y) inside the element.
OnMove(t, x, y) ==
  LET centerX == RectSize \div 2
      centerY == RectSize \div 2
      rotateX == ((y - centerY) * (0 - MaxTilt)) \div centerY
      rotateY == ((x - centerX) * MaxTilt) \div centerX
      moved == [t EXCEPT !.transform = Rotated(rotateX, rotateY, ScalePercent)]
  IN  IF t.glare
      THEN [moved EXCEPT !.glareAt = << (x * 100) \div RectSize,
                                        (y * 100) \div RectSize >>,
                         !.glareOpacity = "1"]
      ELSE moved

\* onLeave()
OnLeave(t) ==
  LET flat == [t EXCEPT !.transition = EaseTransition,
                        !.transform = Rotated(0, 0, 100)]
  IN  IF t.glare THEN [flat EXCEPT !.glareOpacity = "0"] ELSE flat

\* The callback of the timeout set by onEnter().
TimeoutResult(t) == [t EXCEPT !.transition = "none", !.timeouts = Tail(@)]

\* -------------------------------------------------------- MagneticElement

\* options.strength and options.lerp (percent), options.triggerArea (px).
StrengthPercent == 40

LerpPercent == 10

TriggerArea == 200

\* Positions of the pointer and of the centre of the element (px).
Points == { << 0, 0 >>, << 60, 80 >>, << 300, 0 >> }

Centers == { << 0, 0 >>, << 40, 0 >> }

\* Math.hypot, to the whole pixel below.
Hypot(dx, dy) ==
  CHOOSE r \in 0..(2 * TriggerArea) :
    r * r <= dx * dx + dy * dy /\ dx * dx + dy * dy < (r + 1) * (r + 1)

\* No MagneticElement has been constructed.  `pos` and `target` are in
\* whole pixels; `layout` is where the centre of the element is in
\* the window and `raf` holds the handles of the pending frame callbacks.
\* `since` holds the events handled after destroy().
NoMagnetic ==
  [ made |-> FALSE, pos |-> << 0, 0 >>, target |-> << 0, 0 >>, rect |-> FALSE,
    center |-> << 0, 0 >>, layout |-> << 0, 0 >>, isHovered |-> FALSE,
    rafId |-> 0, raf |-> {}, transform |-> [set |-> FALSE, x |-> 0, y |-> 0],
    destroyed |-> FALSE, since |-> {} ]

\* calculateBounds()
CalculateBounds(m) == [m EXCEPT !.rect = TRUE, !.center = m.layout]

\* animate()
Animate(m) ==
  LET x == m.pos[1] + ((m.target[1] - m.pos[1]) * LerpPercent) \div 100
      y == m.pos[2] + ((m.target[2] - m.pos[2]) * LerpPercent) \div 100
      id == FreshId(m.raf \union ({m.rafId} \ {0}))
  IN  [m EXCEPT !.pos = << x, y >>,
                !.transform = [set |-> TRUE, x |-> x, y |-> y],
                !.rafId = id,
                !.raf = @ \union {id}]

\* new MagneticElement(el) for an element centred at c.
MagneticOf(c) ==
  Animate(CalculateBounds([NoMagnetic EXCEPT !.made = TRUE, !.layout = c]))

\* onMouseMove(e) with the pointer at p.
OnMouseMove(m, p) ==
  LET bounds == CalculateBounds(m)
      dx == p[1] - bounds.center[1]
      dy == p[2] - bounds.center[2]
      distance == Hypot(dx, dy)
  IN  IF distance < TriggerArea
      THEN [bounds EXCEPT !.target =
              << (dx * StrengthPercent * (TriggerArea - distance))
                   \div (100 * TriggerArea),
                 (dy * StrengthPercent * (TriggerArea - distance))
                   \div (100 * TriggerArea) >>]
      ELSE IF ~m.isHovered
      THEN [bounds EXCEPT !.target = << 0, 0 >>]
      ELSE bounds

\* Variant of DestroyResult: the frame request is left pending.
DestroyWithoutCancel(m) ==
  [m EXCEPT !.transform = [set |-> FALSE, x |-> 0, y |-> 0], !.destroyed = TRUE]

\* destroy()
DestroyResult(m) ==
  [m EXCEPT !.raf = @ \ {m.rafId},
            !.transform = [set |-> FALSE, x |-> 0, y |-> 0],
            !.destroyed = TRUE]

\* --------------------------------------------------------------- actions

\* A caller invokes setText(text) on a scrambler of its own.
SetText(text) ==
  /\ ~constructed
  /\ Len(promises) < MaxCalls
  /\ \E s \in SetTextResults(Now, text, TimingDraws) : Becomes(s)
  /\ newText' = text
  /\ interrupted' = IF InFlight THEN interrupted \union {resolve} ELSE interrupted
  /\ UNCHANGED << words, constructed, stopPhase, stopCalls, dataset, initialised, rest >>

\* The first setText(text) of a scrambler, with the wide timing draws.
SetTextWide(text) ==
  /\ ~constructed
  /\ promises = <<>>
  /\ \E s \in SetTextResults(Now, text, WideTimingDraws) : Becomes(s)
  /\ newText' = text
  /\ UNCHANGED << interrupted, words, constructed, stopPhase, stopCalls, dataset, initialised, rest >>

\* The browser runs the pending animation-frame callback h: update(),
\* then the microtask checkpoint.
Frame(h) ==
  /\ h \in raf
  /\ microtasks = 0
  /\ \E q \in UpdatedQueues(queue, frame) :
       \E s1 \in {Update([Now EXCEPT !.raf = @ \ {h}], q)} :
         \E s2 \in {Drain(s1)} : Becomes(s2)
  /\ UNCHANGED << words, constructed, newText, interrupted, stopPhase, stopCalls, dataset, initialised, rest >>

\* new WordRotator(el, ws, options): the constructor, which ends in
\* start(). When start() throws, the caller gets no rotator.
Constructing(ws, options) ==
  /\ ~constructed
  /\ ~thrown
  /\ promises = <<>>
  /\ constructed' = (ws # <<>>)
  /\ words' = ws
  /\ \E s \in NextResults([Now EXCEPT !.currentIndex = 0, !.timeoutId = 0,
                                     !.interval = IntervalOf(options)], ws) :
       Becomes(s)
  /\ newText' = IF ws = <<>> THEN newText ELSE ws[1]
  /\ UNCHANGED << interrupted, stopPhase, stopCalls, dataset >>

\* A caller constructs a rotator.
Construct(ws, options) ==
  /\ Constructing(ws, options)
  /\ UNCHANGED << initialised, rest >>

\* initKineticText(), for a page with one rotate element.
InitKineticText ==
  /\ ~initialised
  /\ initialised' = TRUE
  /\ UNCHANGED rest
  /\ LET ws == ParsedWords(dataset.words)
     IN  IF Len(ws) > 0
         THEN Constructing(ws, {<<"interval", OrDefault(ParseInt(dataset.interval))>>})
         ELSE UNCHANGED << el, output, seen, frameRequest, frame, queue,
                           resolve, raf, promises, microtasks, words,
                           constructed, currentIndex, timeoutId, timers, due,
                           interval, elapsed, thrown, dataset, newText,
                           interrupted, stopPhase, stopCalls >>

\* The script that called the constructor ends: the microtask checkpoint.
Checkpoint ==
  /\ microtasks > 0
  /\ \E s \in {Drain(Now)} : Becomes(s)
  /\ UNCHANGED << words, constructed, newText, interrupted, stopPhase, stopCalls, dataset, initialised, rest >>

\* The browser runs the pending timeout h: next(), then the checkpoint.
Timer(h) ==
  /\ h \in timers
  /\ due[h] = 0
  /\ microtasks = 0
  /\ Len(promises) < MaxCalls
  /\ \E s \in NextResults([Now EXCEPT !.timers = @ \ {h},
                                     !.due = ClearTimeout(@, h)], words) :
       \E s2 \in {Drain(s)} : Becomes(s2)
  /\ newText' = words[currentIndex + 1]
  /\ interrupted' = IF InFlight THEN interrupted \union {resolve} ELSE interrupted
  /\ UNCHANGED << words, constructed, stopPhase, stopCalls, dataset, initialised, rest >>

\* Time passes until the earliest pending timeout is due.
AdvanceTime ==
  /\ microtasks = 0
  /\ timers # {}
  /\ \A h \in timers : due[h] > 0
  /\ LET d == CHOOSE d \in {due[h] : h \in timers} :
                \A h \in timers : d <= due[h]
     IN  Becomes([Now EXCEPT !.due = [h \in timers |-> due[h] - d],
                             !.elapsed = @ + d])
  /\ UNCHANGED << words, constructed, newText, interrupted, stopPhase, stopCalls, dataset, initialised, rest >>

\* A caller invokes start() on the rotator; the microtask checkpoint
\* follows when the caller's script ends.
Start ==
  /\ constructed
  /\ microtasks = 0
  /\ Len(promises) < MaxCalls
  /\ \E s \in NextResults(Now, words) : Becomes(s)
  /\ newText' = words[currentIndex + 1]
  /\ interrupted' = IF InFlight THEN interrupted \union {resolve} ELSE interrupted
  /\ UNCHANGED << words, constructed, stopPhase, stopCalls, dataset, initialised, rest >>

\* A caller invokes stop().
Stop ==
  /\ constructed
  /\ Becomes(StopResult(Now))
  /\ stopPhase' = IF stopPhase = "none" THEN Phase ELSE stopPhase
  /\ stopCalls' = IF stopPhase = "none" THEN Len(promises) ELSE stopCalls
  /\ UNCHANGED << words, constructed, newText, interrupted, dataset, initialised, rest >>

\* A caller constructs a Typewriter on an element that shows `text`.
NewTypewriter(text) ==
  /\ ~typewriter.made
  /\ typewriter' = TypewriterOf(text)
  /\ UNCHANGED << kinetic, cursor, nav, tilt, magnetic >>

\* A caller invokes type(), for the first time.
Type ==
  /\ typewriter.made
  /\ typewriter.calls = 0
  /\ typewriter' = TypeResult(typewriter)
  /\ UNCHANGED << kinetic, cursor, nav, tilt, magnetic >>

\* The browser runs the delay timeout of type().
TypeDelay ==
  /\ typewriter.timeout
  /\ typewriter' = DelayResult(typewriter)
  /\ UNCHANGED << kinetic, cursor, nav, tilt, magnetic >>

\* The browser runs the interval callback of type().
TypeTick ==
  /\ typewriter.interval
  /\ typewriter' = TickResult(typewriter)
  /\ UNCHANGED << kinetic, cursor, nav, tilt, magnetic >>

\* The cursor module is evaluated, on a touch device or not.
NewCursor(touch) ==
  /\ ~cursor.made
  /\ cursor' = CursorOf(touch)
  /\ UNCHANGED << kinetic, typewriter, nav, tilt, magnetic >>

\* init() of main.js on a page with a mobile menu and without magnetic,
\* tilt or rotate elements: initMobileNav() and then cursor.refresh().
MainInit(w) ==
  /\ cursor.made
  /\ ~nav.made
  /\ nav' = NavOf(w)
  /\ cursor' = BindHoverTargets(cursor)
  /\ UNCHANGED << kinetic, typewriter, tilt, magnetic >>

\* A caller invokes cursor.refresh().
Refresh ==
  /\ cursor.made
  /\ cursor.bound < MaxBindings
  /\ cursor' = BindHoverTargets(cursor)
  /\ UNCHANGED << kinetic, typewriter, nav, tilt, magnetic >>

\* The pointer enters a target of the given kind.
MouseEnter(kind) ==
  /\ cursor.made
  /\ cursor.over = "none"
  /\ cursor' = [EnterListeners(cursor, kind, cursor.bound)
                  EXCEPT !.over = kind, !.last = "mouseenter"]
  /\ UNCHANGED << kinetic, typewriter, nav, tilt, magnetic >>

\* The pointer leaves the target it is over.
MouseLeave ==
  /\ cursor.made
  /\ cursor.over # "none"
  /\ cursor' = [LeaveListeners(cursor, cursor.bound)
                  EXCEPT !.over = "none", !.last = "mouseleave"]
  /\ UNCHANGED << kinetic, typewriter, nav, tilt, magnetic >>

\* The mouse button goes down.
MouseDown ==
  /\ cursor.made
  /\ ~cursor.down
  /\ cursor' = [(IF cursor.documentBound THEN OnClick(cursor) ELSE cursor)
                  EXCEPT !.down = TRUE, !.before = cursor.dot, !.last = "mousedown"]
  /\ UNCHANGED << kinetic, typewriter, nav, tilt, magnetic >>

\* The mouse button is released.
MouseUp ==
  /\ cursor.made
  /\ cursor.down
  /\ cursor' = [(IF cursor.documentBound THEN OnRelease(cursor) ELSE cursor)
                  EXCEPT !.down = FALSE, !.last = "mouseup"]
  /\ UNCHANGED << kinetic, typewriter, nav, tilt, magnetic >>

\* The toggle is clicked.
ToggleClick ==
  /\ nav.made
  /\ nav' = [ToggleResult(nav) EXCEPT !.last = "toggle"]
  /\ UNCHANGED << kinetic, typewriter, cursor, tilt, magnetic >>

\* A link of the mobile menu is clicked.
LinkClick ==
  /\ nav.made
  /\ nav' = [CloseMenu(nav) EXCEPT !.last = "link"]
  /\ UNCHANGED << kinetic, typewriter, cursor, tilt, magnetic >>

\* A key goes down.
KeyDown(key) ==
  /\ nav.made
  /\ nav' = [KeyResult(nav, key) EXCEPT !.last = "key"]
  /\ UNCHANGED << kinetic, typewriter, cursor, tilt, magnetic >>

\* The window is resized to width w.
Resize(w) ==
  /\ nav.made
  /\ nav' = [ResizeResult([nav EXCEPT !.innerWidth = w]) EXCEPT !.last = "resize"]
  /\ UNCHANGED << kinetic, typewriter, cursor, tilt, magnetic >>

\* A caller constructs a TiltElement, with or without glare, on a touch
\* device or not.
NewTiltElement(touch, glare) ==
  /\ ~tilt.made
  /\ tilt' = TiltOf(touch, glare)
  /\ UNCHANGED << kinetic, typewriter, cursor, nav, magnetic >>

\* The pointer enters the element.
TiltEnter ==
  /\ tilt.made
  /\ ~tilt.inside
  /\ Len(tilt.timeouts) < MaxTimeouts
  /\ tilt' = [(IF tilt.bound THEN OnEnter(tilt) ELSE tilt)
                EXCEPT !.inside = TRUE, !.left = FALSE]
  /\ UNCHANGED << kinetic, typewriter, cursor, nav, magnetic >>

\* The pointer moves to (x, y) inside the element.
TiltMove(x, y) ==
  /\ tilt.inside
  /\ tilt' = IF tilt.bound THEN OnMove(tilt, x, y) ELSE tilt
  /\ UNCHANGED << kinetic, typewriter, cursor, nav, magnetic >>

\* The pointer leaves the element.
TiltLeave ==
  /\ tilt.inside
  /\ tilt' = [(IF tilt.bound THEN OnLeave(tilt) ELSE tilt)
                EXCEPT !.inside = FALSE, !.left = tilt.bound]
  /\ UNCHANGED << kinetic, typewriter, cursor, nav, magnetic >>

\* Time passes, no further than to the next timeout that is due.
TiltAdvance(d) ==
  /\ tilt.timeouts # << >>
  /\ d <= tilt.timeouts[1]
  /\ tilt' = [tilt EXCEPT !.timeouts = [k \in DOMAIN @ |-> @[k] - d]]
  /\ UNCHANGED << kinetic, typewriter, cursor, nav, magnetic >>

\* The browser runs the timeout of onEnter() that is due.
TiltTimeout ==
  /\ tilt.timeouts # << >>
  /\ tilt.timeouts[1] = 0
  /\ tilt' = TimeoutResult(tilt)
  /\ UNCHANGED << kinetic, typewriter, cursor, nav, magnetic >>

\* The event is recorded when it comes after destroy().
Since(m, event) == IF m.destroyed THEN m.since \union {event} ELSE m.since

\* A caller constructs a MagneticElement on an element centred at c.
NewMagneticElement(c) ==
  /\ ~magnetic.made
  /\ magnetic' = MagneticOf(c)
  /\ UNCHANGED << kinetic, typewriter, cursor, nav, tilt >>

\* The browser runs a requested frame of the MagneticElement.
MagneticFrame(h) ==
  /\ h \in magnetic.raf
  /\ magnetic' = Animate([magnetic EXCEPT !.raf = @ \ {h}])
  /\ UNCHANGED << kinetic, typewriter, cursor, nav, tilt >>

\* The pointer moves to p.
MagneticMove(p) ==
  /\ magnetic.made
  /\ magnetic' = [OnMouseMove(magnetic, p)
                    EXCEPT !.since = Since(magnetic, "mousemove")]
  /\ UNCHANGED << kinetic, typewriter, cursor, nav, tilt >>

\* The pointer enters the element.
MagneticEnter ==
  /\ magnetic.made
  /\ ~magnetic.isHovered
  /\ magnetic' = [magnetic EXCEPT !.isHovered = TRUE,
                                  !.since = Since(magnetic, "mouseenter")]
  /\ UNCHANGED << kinetic, typewriter, cursor, nav, tilt >>

\* The pointer leaves the element.
MagneticLeave ==
  /\ magnetic.made
  /\ magnetic.isHovered
  /\ magnetic' = [magnetic EXCEPT !.isHovered = FALSE, !.target = << 0, 0 >>,
                                  !.since = Since(magnetic, "mouseleave")]
  /\ UNCHANGED << kinetic, typewriter, cursor, nav, tilt >>

\* The window is resized, which moves the centre of the element to c.
MagneticResize(c) ==
  /\ magnetic.made
  /\ magnetic' = [CalculateBounds([magnetic EXCEPT !.layout = c])
                    EXCEPT !.since = Since(magnetic, "resize")]
  /\ UNCHANGED << kinetic, typewriter, cursor, nav, tilt >>

\* A caller invokes destroy().
MagneticDestroy ==
  /\ magnetic.made
  /\ magnetic' = DestroyResult(magnetic)
  /\ UNCHANGED << kinetic, typewriter, cursor, nav, tilt >>

InitProgram ==
  /\ typewriter = NoTypewriter
  /\ cursor = NoCursor
  /\ nav = NoNav
  /\ tilt = NoTilt
  /\ magnetic = NoMagnetic
  /\ el \in InitialTexts
  /\ output = <<>>
  /\ seen = 0
  /\ frameRequest = 0
  /\ frame = 0
  /\ queue = <<>>
  /\ resolve = 0
  /\ raf = {}
  /\ promises = <<>>
  /\ microtasks = 0
  /\ words = <<>>
  /\ constructed = FALSE
  /\ currentIndex = 0
  /\ timeoutId = 0
  /\ timers = {}
  /\ due = [h \in {} |-> 0]
  /\ interval = 0
  /\ elapsed = 0
  /\ thrown = FALSE
  /\ initialised = FALSE
  /\ newText = <<>>
  /\ interrupted = {}
  /\ stopPhase = "none"
  /\ stopCalls = 0

\* The page has no rotate element.
Init == InitProgram /\ dataset = NoDataset

\* The page has a rotate element.
InitKinetic == InitProgram /\ dataset \in Datasets

\* A scrambler driven by its caller.
Next ==
  \/ \E text \in Texts : SetText(text)
  \/ \E h \in raf : Frame(h)

Spec == Init /\ [][Next]_vars

\* A rotation cycle started by its constructor.
NextRotator ==
  \/ \E ws \in WordLists, options \in Options : Construct(ws, options)
  \/ Checkpoint
  \/ \E h \in raf : Frame(h)
  \/ AdvanceTime
  \/ \E h \in timers : Timer(h)
  \/ Stop

SpecRotator == Init /\ [][NextRotator]_vars

\* A rotator whose start() and stop() are called at any time.
NextStart ==
  \/ \E ws \in WordLists, options \in Options : Construct(ws, options)
  \/ Checkpoint
  \/ \E h \in raf : Frame(h)
  \/ AdvanceTime
  \/ \E h \in timers : Timer(h)
  \/ Start
  \/ Stop

SpecStart == Init /\ [][NextStart]_vars

\* A rotation cycle that nothing stops, with the browser running every
\* requested frame, every microtask checkpoint and every timeout that is
\* due, and with time passing.
NextCycle ==
  \/ \E options \in Options : Construct(CycleWords, options)
  \/ Checkpoint
  \/ \E h \in raf : Frame(h)
  \/ AdvanceTime
  \/ \E h \in timers : Timer(h)

SpecCycle ==
  /\ Init
  /\ [][NextCycle]_vars
  /\ WF_vars(Checkpoint)
  /\ WF_vars(\E h \in raf : Frame(h))
  /\ WF_vars(AdvanceTime)
  /\ WF_vars(\E h \in timers : Timer(h))

\* A rotation started from the attributes of the rotate element; nothing
\* keeps a reference to the rotator.
NextKinetic ==
  \/ InitKineticText
  \/ Checkpoint
  \/ \E h \in raf : Frame(h)
  \/ AdvanceTime
  \/ \E h \in timers : Timer(h)

SpecKinetic == InitKinetic /\ [][NextKinetic]_vars

\* A Typewriter whose type() is called once.
NextTypewriter ==
  \/ \E text \in TypeTexts : NewTypewriter(text)
  \/ Type
  \/ TypeDelay
  \/ TypeTick

SpecTypewriter == Init /\ [][NextTypewriter]_vars

\* A page with the custom cursor and the mobile navigation.
NextPage ==
  \/ \E touch \in BOOLEAN : NewCursor(touch)
  \/ \E w \in Widths : MainInit(w)
  \/ Refresh
  \/ \E kind \in TargetKinds : MouseEnter(kind)
  \/ MouseLeave
  \/ MouseDown
  \/ MouseUp
  \/ ToggleClick
  \/ LinkClick
  \/ \E key \in Keys : KeyDown(key)
  \/ \E w \in Widths : Resize(w)

SpecPage == Init /\ [][NextPage]_vars

\* A TiltElement under the pointer.
NextTilt ==
  \/ \E touch \in BOOLEAN, glare \in BOOLEAN : NewTiltElement(touch, glare)
  \/ TiltEnter
  \/ \E x \in Positions, y \in Positions : TiltMove(x, y)
  \/ TiltLeave
  \/ \E d \in Elapses : TiltAdvance(d)
  \/ TiltTimeout

SpecTilt == Init /\ [][NextTilt]_vars

\* A MagneticElement that its caller may destroy.
NextMagnetic ==
  \/ \E c \in Centers : NewMagneticElement(c)
  \/ \E h \in magnetic.raf : MagneticFrame(h)
  \/ \E p \in Points : MagneticMove(p)
  \/ MagneticEnter
  \/ MagneticLeave
  \/ \E c \in Centers : MagneticResize(c)
  \/ MagneticDestroy

SpecMagnetic == Init /\ [][NextMagnetic]_vars

\* A scrambler whose first session draws its timing from the whole range.
NextWide ==
  \/ \E text \in Texts : SetTextWide(text)
  \/ \E h \in raf : Frame(h)

SpecWide == Init /\ [][NextWide]_vars

\* ---------------------------------------------------------------- claims

\* A setText call happens in this step.
SetTextStep == Len(promises') > Len(promises)

\* The promise p is notified in this step.
Notified(p) ==
  promises'[p].calls > (IF p <= Len(promises) THEN promises[p].calls ELSE 0)

\* C1: the completion notification of a session fires at most once, only
\* for the session in the queue and only in an update whose frame has
\* reached the end of every position; and a session that has stopped
\* animating has been notified exactly once.
CompletionOnce ==
  /\ [](\A p \in 1..Len(promises) : promises[p].calls <= 1)
  /\ [](resolve # 0 /\ raf = {} => promises[resolve].calls = 1)
  /\ [][\A p \in 1..Len(promises') :
          Notified(p) =>
            /\ p = resolve'
            /\ \A i \in 1..Len(queue') : frame' >= queue'[i].end]_vars

\* C1 witness: a session of two positions was notified after several frames.
CompletionOnceWitness ==
  /\ resolve # 0
  /\ promises[resolve].calls = 1
  /\ Len(queue) = 2
  /\ frame > 2

\* C2: the notification of a session that was superseded by a later setText
\* before it completed never fires.
SupersededNeverNotified == \A p \in interrupted : promises[p].calls = 0

\* C2 witness: a session was superseded and the session after it completed.
SupersededNeverNotifiedWitness ==
  /\ interrupted # {}
  /\ resolve \notin interrupted
  /\ promises[resolve].calls = 1
  /\ frame > 0

\* C3: once stop() was called while a transition was in flight, the cycle
\* makes no further setText call.
NoTransitionAfterStopInFlight ==
  stopPhase = "inflight" => Len(promises) = stopCalls

\* C4: the transition that was in flight when stop() was called completes
\* with the element showing its target word.
StoppedTransitionRendersTarget ==
  (/\ stopPhase = "inflight"
   /\ resolve = stopCalls
   /\ promises[resolve].calls > 0) => el = newText

\* C5: once stop() was called during the delay after a transition, no
\* further transition begins and the element shows the last completed word.
StopInDelayKeepsWord ==
  stopPhase = "delay" => Len(promises) = stopCalls /\ el = newText

\* C6: at most one animation-frame callback is pending, it is the one kept
\* in frameRequest and it belongs to the session in flight; and a setText
\* call leaves none of the callbacks that were pending before it.
OneFrameChain ==
  /\ [](Cardinality(raf) <= 1)
  /\ [](raf \subseteq {frameRequest})
  /\ [](raf # {} => InFlight)
  /\ [][SetTextStep => raf \cap raf' = {}]_vars

\* C6 witness: a session was superseded and the new one has a callback pending.
OneFrameChainWitness == interrupted # {} /\ raf # {} /\ frame > 0

\* C7: setText(newText) builds max(len(oldText), len(newText)) tasks, task i
\* going from oldText[i] to newText[i], each empty beyond its text.
SessionShape ==
  [][SetTextStep =>
       /\ Len(queue') = Max(Len(el), Len(newText'))
       /\ \A i \in 1..Len(queue') :
            /\ queue'[i].from = CharAt(el, i)
            /\ queue'[i].to = CharAt(newText', i)]_vars

\* C7 witness: setText("") on a text of two characters built two tasks that
\* both go to the empty string.
SessionShapeWitness ==
  /\ Len(promises) = 1
  /\ newText = <<>>
  /\ Len(queue) = 2
  /\ \A i \in 1..2 : queue[i].to = "" /\ queue[i].from # ""

\* The text the last update of the session in flight rendered.
Rendered == TextContent([i \in 1..Len(queue) |-> Emit(queue[i], frame - 1)])

\* C8: a setText call that interrupts a session takes its from characters
\* from the text rendered at that moment, glyphs included.
FromIsRendered ==
  [][SetTextStep /\ InFlight =>
       /\ Len(queue') >= Len(Rendered)
       /\ \A i \in 1..Len(queue') : queue'[i].from = CharAt(Rendered, i)]_vars

\* C8 witness: a session was superseded while it showed the glyph "!", which
\* is a from character of the session that followed.
FromIsRenderedWitness ==
  /\ interrupted # {}
  /\ \E i \in 1..Len(queue) : queue[i].from = "!" /\ queue[i].to # "!"

\* C9: when a session has completed, the element shows newText.
CompletedRendersNewText ==
  (resolve # 0 /\ promises[resolve].calls > 0) => el = newText

\* C10: every task has start in [0,40) and end in [start, start+40), so
\* start <= end and end < 80.
TimingRange ==
  \A i \in 1..Len(queue) :
    /\ queue[i].start \in 0..39
    /\ queue[i].end \in queue[i].start..(queue[i].start + 39)
    /\ queue[i].end < 80

\* C10 witness: a task with the latest start and the latest end.
TimingRangeWitness ==
  \E i \in 1..Len(queue) : queue[i].start = 39 /\ queue[i].end = 78

\* The character of the piece update() writes for position i at the frame
\* it last ran with.
PieceChar(i) ==
  IF seen >= queue[i].end THEN queue[i].to
  ELSE IF seen >= queue[i].start THEN queue[i].char
  ELSE queue[i].from

\* C11: what the element shows after an update is one piece per task, in
\* position order: the task's to if frame >= end, else a glyph if
\* frame >= start, else the task's from.
RenderedIsPiecePerTask ==
  resolve # 0 =>
    el = SelectSeq([i \in 1..Len(queue) |-> PieceChar(i)], LAMBDA c : c # "")

\* How far position i is in the output out written at frame f for queue q:
\* 0 pending, 1 resolving, 2 frozen.
Rank(out, f, q, i) ==
  IF out[i].wrapped THEN 1 ELSE IF f >= q[i].end THEN 2 ELSE 0

\* C12: within a session no position moves backwards through pending,
\* resolving, frozen, and a position whose end frame is reached gets its to
\* in that update and in every later one.
PositionsOnlyAdvance ==
  /\ [](resolve # 0 =>
          \A i \in 1..Len(queue) :
            seen >= queue[i].end => output[i] = Raw(queue[i].to))
  /\ [][~SetTextStep /\ resolve # 0 =>
          /\ seen' >= seen
          /\ Len(queue') = Len(queue)
          /\ \A i \in 1..Len(queue) :
               /\ queue'[i].start = queue[i].start
               /\ queue'[i].end = queue[i].end
               /\ Rank(output', seen', queue', i) >= Rank(output, seen, queue, i)]_vars

\* C12 witness: a position that showed a glyph is frozen while another
\* position still shows one.
PositionsOnlyAdvanceWitness ==
  /\ resolve # 0
  /\ \E i, j \in 1..Len(queue) :
       /\ queue[i].char # ""
       /\ seen >= queue[i].end
       /\ output[i] = Raw(queue[i].to)
       /\ output[j].wrapped

\* C20: the first update of every setText call runs with frame 0, each
\* later update of the session with the frame after the one before it, and
\* a callback that was pending when setText was called is pending no more.
FramesCountFromZero ==
  [][/\ SetTextStep => seen' = 0 /\ raf \cap raf' = {}
     /\ ~SetTextStep => seen' = seen + 1
     /\ Cardinality(raf') <= 1]_vars

\* C20 witness: a session that superseded another one has run the updates
\* of frames 0, 1 and 2.
FramesCountFromZeroWitness ==
  /\ interrupted # {}
  /\ InFlight
  /\ seen = 2
  /\ frame = 3

\* C13: the rotator calls setText for a following word only when the
\* transition before it has completed and the interval has passed since that
\* completion; the timeout it waits for is set at the completion, with the
\* interval as its delay.
NextAfterCompletionAndDelay ==
  /\ [](\A h \in timers : due[h] + elapsed = interval)
  /\ [][SetTextStep /\ promises # <<>> =>
          /\ promises[Len(promises)].calls > 0
          /\ elapsed >= interval]_vars

\* C13 witness: with interval 2500 the second transition is in flight, 2500
\* ms after the first one completed.
NextAfterCompletionAndDelayWitness ==
  /\ constructed
  /\ Len(promises) = 2
  /\ InFlight
  /\ interval = 2500
  /\ elapsed = 2500

\* The word the session in the queue leads to: its to characters.
Target == SelectSeq([i \in 1..Len(queue) |-> queue[i].to], LAMBDA c : c # "")

\* C14: the k-th transition of a rotation (k = 0, 1, ...) leads to
\* words[k mod n].
WordsInListOrder ==
  constructed /\ promises # <<>> =>
    Target = words[((Len(promises) - 1) % Len(words)) + 1]

\* C14 witness: the third transition of a list of two words leads to the
\* first word again.
WordsInListOrderWitness ==
  /\ constructed
  /\ Len(words) = 2
  /\ Len(promises) = 3
  /\ Target = words[1]

\* C16: the index stays within the list, and while the transition to
\* words[i] runs or waits in its delay the index is (i + 1) mod n.
IndexAdvancedAtInitiation ==
  constructed =>
    /\ currentIndex \in 0..(Len(words) - 1)
    /\ Phase \in {"inflight", "completing", "delay"} =>
         \E i \in 0..(Len(words) - 1) :
           /\ Target = words[i + 1]
           /\ i = (Len(promises) - 1) % Len(words)
           /\ currentIndex = (i + 1) % Len(words)

\* C16 witness: the transition to the last word waits in its delay and the
\* index is back at 0.
IndexAdvancedAtInitiationWitness ==
  /\ constructed
  /\ Phase = "delay"
  /\ Target = words[Len(words)]
  /\ currentIndex = 0

\* C17: as long as no rotator exists, the constructor call with an empty
\* list included, no setText call was made, no callback or timeout is
\* pending, the element shows its text and no exception was raised.
EmptyListIsNoOp ==
  ~constructed =>
    /\ promises = <<>>
    /\ raf = {}
    /\ timers = {}
    /\ el \in InitialTexts
    /\ ~thrown

\* The positions of the commas of the value v, with an end mark behind it.
Commas(v) == {i \in 1..Len(v) : v[i] = ","} \union {Len(v) + 1}

\* The k-th comma position of v, counted from 0 for the position before v.
Comma(v, k) ==
  IF k = 0 THEN 0
  ELSE CHOOSE i \in Commas(v) : Cardinality({j \in Commas(v) : j < i}) = k - 1

\* The k-th comma-delimited entry of v without the spaces around it.
Entry(v, k) ==
  LET inner == {i \in (Comma(v, k - 1) + 1)..(Comma(v, k) - 1) : v[i] # " "}
  IN  IF inner = {} THEN <<>>
      ELSE SubSeq(v, CHOOSE i \in inner : \A j \in inner : i <= j,
                     CHOOSE i \in inner : \A j \in inner : j <= i)

RECURSIVE Decimal(_)
\* The number a string of digits denotes.
Decimal(v) ==
  IF v = <<>> THEN 0
  ELSE Decimal(SubSeq(v, 1, Len(v) - 1)) * 10 + DigitValue(v[Len(v)])

\* C19: after initKineticText the rotate element has a rotation exactly
\* when it has a data-words attribute; its words are the comma-delimited
\* entries of the attribute in order, trimmed, and its interval is the
\* number in data-interval when there is one and 3000 when the attribute is
\* missing.
RotationFromAttributes ==
  initialised =>
    /\ ~dataset.words.given => ~constructed /\ promises = <<>> /\ ~thrown
    /\ dataset.words.given =>
         /\ constructed
         /\ Len(words) = Cardinality(Commas(dataset.words.value))
         /\ \A k \in 1..Len(words) : words[k] = Entry(dataset.words.value, k)
         /\ ~dataset.interval.given => interval = DefaultInterval
         /\ (/\ dataset.interval.given
             /\ dataset.interval.value # <<>>
             /\ \A i \in 1..Len(dataset.interval.value) :
                  IsDigit(dataset.interval.value[i]))
              => interval = Decimal(dataset.interval.value)

\* The largest end frame of the session in the queue.
LargestEnd ==
  IF queue = <<>> THEN 0
  ELSE CHOOSE m \in {queue[i].end : i \in 1..Len(queue)} :
         \A i \in 1..Len(queue) : queue[i].end <= m

\* C18: a session that is not superseded keeps a frame requested until it
\* completes, each frame takes it one frame closer to the largest end of
\* its tasks, and it is notified in the update of exactly that frame, which
\* is at most 78; no timeout is involved.
CompletesAtLargestEnd ==
  /\ [](resolve # 0 =>
          /\ seen <= LargestEnd
          /\ LargestEnd <= 2 * (ScrambleRange - 1)
          /\ promises[resolve].calls > 0 <=> seen = LargestEnd
          /\ promises[resolve].calls = 0 => raf # {} /\ frame = seen + 1
          /\ timers = {})
  /\ [][InFlight /\ ~SetTextStep =>
          seen' = seen + 1 /\ LargestEnd' = LargestEnd]_vars

\* C18 witness: a session has completed in the update of frame 78, its
\* seventy-ninth.
CompletesAtLargestEndWitness ==
  /\ resolve # 0
  /\ promises[resolve].calls = 1
  /\ seen = 78
  /\ raf = {}

\* The k-th transition of the cycle has completed and no other has begun;
\* it led to words[(k - 1) mod n].
Completed(k) ==
  /\ Len(promises) = k
  /\ promises[k].calls > 0
  /\ Target = words[((k - 1) % Len(words)) + 1]

\* C15: in a cycle that is never stopped every transition completes and is
\* followed by the next one, so that each word is led to again and again, up
\* to the number of transitions explored.
CycleRunsOn ==
  \A k \in 1..MaxCalls :
    (constructed /\ Len(promises) <= k) ~> Completed(k)

\* C15 witness: the cycle has come round to the first word again and
\* completed that transition.
CycleRunsOnWitness ==
  /\ constructed
  /\ Len(promises) = 3
  /\ promises[3].calls > 0
  /\ Target = words[1]
  /\ timeoutId \in timers

\* The session in the queue has been notified of its completion.
IsComplete == resolve # 0 /\ promises[resolve].calls > 0

\* C21: the update that notifies requests no frame, and from then until the
\* next setText call no frame callback is pending and what the element
\* shows and the frame counter stay as they are.
CompletionStopsFrames ==
  /\ [](IsComplete => raf = {} /\ frame = seen)
  /\ [][IsComplete /\ ~SetTextStep =>
          UNCHANGED << el, output, frame, seen, queue, raf >>]_vars

\* C21 witness: a transition that took frames has completed, and its delay
\* has passed with nothing rendered since.
CompletionStopsFramesWitness ==
  /\ constructed
  /\ IsComplete
  /\ seen > 0
  /\ elapsed = interval
  /\ timeoutId \in timers

\* The glyph set.
Glyphs == {chars[k] : k \in 1..Len(chars)}

\* C22: after an update a position in its resolving range has a glyph as
\* its char and that glyph is what was written for it; a position before
\* its start frame has no char.
ResolvingHasGlyph ==
  resolve # 0 =>
    \A i \in 1..Len(queue) :
      /\ queue[i].start <= seen /\ seen < queue[i].end =>
           /\ queue[i].char \in Glyphs
           /\ output[i] = Wrapped(queue[i].char)
      /\ seen < queue[i].start => queue[i].char = ""

\* C22 witness: one position shows a glyph while another has not reached
\* its start frame.
ResolvingHasGlyphWitness ==
  /\ resolve # 0
  /\ \E i, j \in 1..Len(queue) :
       /\ queue[i].start <= seen /\ seen < queue[i].end
       /\ queue[i].char \in Glyphs
       /\ seen < queue[j].start

\* C25: a setText call that leaves every task with end 0, or no task at
\* all, shows its text, notifies and requests no frame before it returns.
NoAnimationCompletesAtOnce ==
  [][SetTextStep /\ (\A i \in 1..Len(queue') : queue'[i].end = 0) =>
       /\ el' = Target'
       /\ promises'[resolve'].calls = 1
       /\ raf' = {}]_vars

\* C24: a rotator has at most one continuation, a session in flight or one
\* pending timeout, and the pending timeout is the one in timeoutId.
OneContinuation ==
  constructed =>
    /\ Cardinality(timers) <= 1
    /\ timers \subseteq {timeoutId}
    /\ ~(InFlight /\ timers # {})

\* C30: after the one type() call the element shows a prefix of the captured
\* text, every tick adds the next character or nothing, and the promise is
\* resolved once, when the whole text is shown, which then stays.
TypesInOrder ==
  /\ [](/\ Len(typewriter.textContent) <= Len(typewriter.text)
        /\ typewriter.textContent =
             SubSeq(typewriter.text, 1, Len(typewriter.textContent))
        /\ typewriter.resolved <= 1
        /\ typewriter.resolved = 1 =>
             typewriter.textContent = typewriter.text /\ ~typewriter.interval)
  /\ [][typewriter.calls = 1 =>
          \/ typewriter'.textContent = typewriter.textContent
          \/ /\ typewriter.resolved = 0
             /\ typewriter'.resolved = 0
             /\ typewriter'.textContent =
                  Append(typewriter.textContent,
                         typewriter.text[Len(typewriter.textContent) + 1])]_vars

\* C30 witness: a text of several characters has been typed out and the
\* promise resolved.
TypesInOrderWitness ==
  /\ typewriter.calls = 1
  /\ typewriter.resolved = 1
  /\ Len(typewriter.text) >= 2
  /\ typewriter.textContent = typewriter.text

\* C23: after a mousedown followed at once by a mouseup, the dot and the
\* ring have the state they had immediately before the mousedown.
ReleaseRestoresState ==
  [][cursor.documentBound /\ cursor.last = "mousedown" /\ cursor'.last = "mouseup"
       => cursor'.dot = cursor.before /\ cursor'.ring = cursor.before]_vars

\* C26: on a touch device no handler of the cursor dereferences a null
\* element.
TouchNeverDereferencesNull == cursor.touch => ~cursor.thrown

\* C28: the four open indicators agree, and only a click on the toggle
\* opens the menu.
IndicatorsAgree ==
  /\ [](/\ nav.isActive <=> nav.ariaExpanded = "true"
        /\ nav.isActive <=> nav.isOpen
        /\ nav.isOpen <=> nav.menuOpen)
  /\ [][~nav.isOpen /\ nav'.isOpen => nav'.last = "toggle"]_vars

\* The menu was opened and a resize to a narrow window has left it open.
IndicatorsAgreeWitness ==
  /\ nav.isOpen
  /\ nav.menuOpen
  /\ nav.last = "resize"
  /\ nav.innerWidth <= MobileLimit

\* C27: once the pointer has left the element, with no mouseenter since,
\* the transition of the element is 'transform <speed>ms ease'.
TransitionStaysAfterLeave == tilt.left => tilt.transition = EaseTransition

\* C29: after destroy() no frame callback of the element is pending and
\* its transform stays cleared, whatever events follow.
DestroyedStaysCleared ==
  magnetic.destroyed => magnetic.raf = {} /\ ~magnetic.transform.set

\* The element was destroyed while the pointer was pulling it, and every
\* kind of event has been handled since.
DestroyedStaysClearedWitness ==
  /\ magnetic.destroyed
  /\ magnetic.pos # << 0, 0 >>
  /\ magnetic.target # magnetic.pos
  /\ magnetic.since = {"mousemove", "mouseenter", "mouseleave", "resize"}

====
